---- MODULE Spec2Model ----
(***************************************************************************)
(* Integration management tools of the Salesforce MCP server.              *)
(*                                                                         *)
(* The state is the remote org the tools act on (the Integration_Config__c *)
(* schema, its records, the deployed Apex triggers and classes), the       *)
(* process environment, and the outcome of the most recent tool            *)
(* invocation: the result it returned and the remote calls it issued.      *)
(*                                                                         *)
(* Every handler is an operator from (org, arguments, net) to the new org, *)
(* the remote calls issued and either a returned value or a thrown error.  *)
(* net is the set of remote calls the platform rejects in this invocation  *)
(* for a reason of its own (network, permissions, limits); a remote call   *)
(* either resolves with its effect or rejects without one, which is how    *)
(* the handlers' try/catch blocks treat the client library.                *)
(*                                                                         *)
(* Texts are modelled by their parts: a template literal is the tuple or   *)
(* record of its interpolated values, join() interleaves the separator.    *)
(***************************************************************************)
EXTENDS Naturals, Sequences, FiniteSets, TLC

\* Bounds of the model.
MaxIds == 2        \* configuration records inserted in one behaviour
MaxNow == 1        \* milliseconds the clock advances in one behaviour
MaxCalls == 2      \* invocations of the handler accepted in one behaviour

Undefined == "undefined"

Has(obj, key) == key \in DOMAIN obj
Get(obj, key) == IF Has(obj, key) THEN obj[key] ELSE Undefined

RECURSIVE UpTo(_, _)
\* The subsets of S with at most k elements.
UpTo(S, k) ==
    IF k = 0 THEN {{}}
    ELSE LET prev == UpTo(S, k - 1)
         IN  prev \cup {p \cup {x} : p \in prev, x \in S}

RECURSIVE Join(_, _)
\* Array.prototype.join: the elements with the separator between them.
Join(seq, sep) ==
    IF Len(seq) = 0 THEN <<>>
    ELSE IF Len(seq) = 1 THEN <<seq[1]>>
    ELSE <<seq[1], sep>> \o Join(Tail(seq), sep)

\* JSON.stringify of an object given as its <<key, value>> pairs in insertion
\* order: properties whose value is undefined are left out.
JSONstringify(obj) ==
    [json |-> SelectSeq(obj, LAMBDA p : p[2] # Undefined)]

Error(message) == [message |-> message]

\* String.prototype.includes on an error message.
Includes(message, part) == \E i \in 1..Len(message) : message[i] = part

----------------------------------------------------------------------------
(* The remote org and the client calls the handlers make on it.            *)

ConfigObject == "Integration_Config__c"

\* The nine custom fields of Integration_Config__c, in creation order.
fields ==
    << [name |-> "Type__c", type |-> "Text"],
       [name |-> "Endpoint__c", type |-> "LongTextArea"],
       [name |-> "Auth_Type__c", type |-> "Text"],
       [name |-> "Auth_Config__c", type |-> "LongTextArea"],
       [name |-> "Object_Name__c", type |-> "Text"],
       [name |-> "Trigger_Events__c", type |-> "Text"],
       [name |-> "Message_Template__c", type |-> "LongTextArea"],
       [name |-> "Condition__c", type |-> "LongTextArea"],
       [name |-> "Active__c", type |-> "Checkbox"] >>

FieldNames == {fields[i].name : i \in 1..Len(fields)}

EmptyOrg ==
    [ customObject |-> FALSE,    \* Integration_Config__c exists
      customFields |-> {},       \* its custom fields
      records      |-> {},       \* its records
      nextId       |-> 1,        \* the Id the next inserted record gets
      triggers     |-> {},       \* deployed ApexTrigger metadata
      classes      |-> {} ]      \* deployed ApexClass metadata

\* A remote call as the log of an invocation keeps it: what was called, on
\* what, with what, and whether it resolved.
Call(api, target, payload, ok) ==
    [api |-> api, target |-> target, payload |-> payload, ok |-> ok]

\* The outcome of one remote call: the org after it, and whether it resolved.
Resolved(org, value) == [org |-> org, ok |-> TRUE, value |-> value]
Rejected(org, message) == [org |-> org, ok |-> FALSE, value |-> Error(message)]

\* conn.describe('Integration_Config__c')
describe(org, net) ==
    IF "describe" \in net THEN Rejected(org, <<"REQUEST_FAILED">>)
    ELSE IF ~org.customObject THEN Rejected(org, <<"NOT_FOUND">>)
    ELSE Resolved(org, org.customFields)

\* conn.metadata.create('CustomObject', metadata)
metadataCreateObject(org, net) ==
    IF "CustomObject" \in net THEN Rejected(org, <<"REQUEST_FAILED">>)
    ELSE IF org.customObject THEN Rejected(org, <<"DUPLICATE_VALUE">>)
    ELSE Resolved([org EXCEPT !.customObject = TRUE], TRUE)

\* conn.metadata.create('CustomField', {fullName: 'Integration_Config__c.<name>', ...})
metadataCreateField(org, field, net) ==
    IF field.name \in net THEN Rejected(org, <<"REQUEST_FAILED">>)
    ELSE IF ~org.customObject THEN Rejected(org, <<"NOT_FOUND">>)
    ELSE IF field.name \in org.customFields THEN Rejected(org, <<"DUPLICATE_VALUE">>)
    ELSE Resolved([org EXCEPT !.customFields = @ \cup {field.name}], TRUE)

\* conn.sobject('Integration_Config__c').create(record): the platform rejects
\* a record of a type, or with a field, that does not exist.
sobjectCreate(org, record, net) ==
    IF "insert" \in net THEN Rejected(org, <<"REQUEST_FAILED">>)
    ELSE IF ~org.customObject THEN Rejected(org, <<"NOT_FOUND">>)
    ELSE IF ~(DOMAIN record \ {"Name"} \subseteq org.customFields)
         THEN Rejected(org, <<"INVALID_FIELD">>)
    ELSE Resolved([org EXCEPT !.records = @ \cup {[Id |-> org.nextId] @@ record},
                              !.nextId = @ + 1],
                  [id |-> org.nextId])

\* conn.metadata.create('ApexTrigger', metadata)
metadataCreateTrigger(org, metadata, net) ==
    IF "createTrigger" \in net THEN Rejected(org, <<"REQUEST_FAILED">>)
    ELSE IF \E t \in org.triggers : t.fullName = metadata.fullName
         THEN Rejected(org, <<"DUPLICATE_VALUE">>)
    ELSE Resolved([org EXCEPT !.triggers = @ \cup {metadata}], TRUE)

\* conn.metadata.update('ApexTrigger', {fullName, body})
metadataUpdateTrigger(org, metadata, net) ==
    IF "updateTrigger" \in net THEN Rejected(org, <<"REQUEST_FAILED">>)
    ELSE IF ~\E t \in org.triggers : t.fullName = metadata.fullName
         THEN Rejected(org, <<"NOT_FOUND">>)
    ELSE Resolved([org EXCEPT !.triggers =
                      {IF t.fullName = metadata.fullName
                       THEN [t EXCEPT !.body = metadata.body] ELSE t : t \in @}],
                  TRUE)

\* conn.metadata.create('ApexClass', metadata)
metadataCreateClass(org, metadata, net) ==
    IF "createApexClass" \in net THEN Rejected(org, <<"REQUEST_FAILED">>)
    ELSE IF \E c \in org.classes : c.fullName = metadata.fullName
         THEN Rejected(org, <<"DUPLICATE_VALUE">>)
    ELSE Resolved([org EXCEPT !.classes = @ \cup {metadata}], TRUE)

----------------------------------------------------------------------------
(* manageIntegrations.ts: the helpers of createIntegration.                *)

\* What a handler did: the org it leaves, the remote calls it issued in
\* order, and the value it returned or (thrown) the error it threw.
Returned(org, calls, value) ==
    [org |-> org, calls |-> calls, thrown |-> FALSE, value |-> value]
Thrown(org, calls, error) ==
    [org |-> org, calls |-> calls, thrown |-> TRUE, value |-> error]

\* The value undefined where an object is expected: reading a property of it
\* throws a TypeError.
NoObject == [undefined |-> TRUE]
IsObject(v) == ~Has(v, "undefined")
TypeError == Error(<<"TypeError", "Cannot read properties of undefined">>)

RECURSIVE createFields(_, _, _, _)
RECURSIVE createField(_, _, _, _)

\* One turn of the loop over fields: r is what the metadata.create of
\* fields[i] answered; a rejection leaves the loop.
createField(r, i, calls, net) ==
    IF r.ok
    THEN createFields(r.org, i + 1,
             Append(calls, Call("metadata.create", "CustomField", fields[i].name, TRUE)),
             net)
    ELSE Thrown(r.org,
             Append(calls, Call("metadata.create", "CustomField", fields[i].name, FALSE)),
             r.value)

\* The loop over fields: one metadata.create per field, in order, until one
\* rejects.
createFields(org, i, calls, net) ==
    IF i > Len(fields) THEN Returned(org, calls, Undefined)
    ELSE createField(metadataCreateField(org, fields[i], net), i, calls, net)

\* createIntegrationConfigObject once the metadata.create of the object has
\* answered r.
createIntegrationConfigFields(r, net) ==
    IF r.ok
    THEN createFields(r.org, 1,
             <<Call("metadata.create", "CustomObject", ConfigObject, TRUE)>>, net)
    ELSE Thrown(r.org, <<Call("metadata.create", "CustomObject", ConfigObject, FALSE)>>,
                r.value)

createIntegrationConfigObject(org, net) ==
    createIntegrationConfigFields(metadataCreateObject(org, net), net)

TriggerName(objectName) == <<objectName, "IntegrationTrigger">>

\* The event clause of one trigger event; '' for anything else.
EventClause(event) ==
    CASE event = "insert" -> "after insert"
      [] event = "update" -> "after update"
      [] event = "delete" -> "after delete"
      [] OTHER -> ""

generateTriggerCode(config) ==
    LET mapped == [i \in 1..Len(config.triggerEvents) |->
                      EventClause(config.triggerEvents[i])]
        events == SelectSeq(mapped, LAMBDA c : c # "")
    IN  [ trigger |-> TriggerName(Get(config, "objectName")),
          on      |-> Get(config, "objectName"),
          events  |-> Join(events, ", "),
          handler |-> "IntegrationCalloutService.handleIntegrationCallout",
          integrationName |-> Get(config, "name") ]

UtilityClassName == "IntegrationCalloutService"

generateUtilityClass ==
    [ class   |-> UtilityClassName,
      methods |-> <<"handleIntegrationCallout", "prepareMessage", "makeCallout",
                    "getPhoneFromRecord", "getSlackChannelFromConfig">> ]

\* An awaited remote call that answered r: the caller goes on when it
\* resolved and throws its error when it rejected.
Awaited(r, api, target, payload) ==
    IF r.ok THEN Returned(r.org, <<Call(api, target, payload, TRUE)>>, Undefined)
    ELSE Thrown(r.org, <<Call(api, target, payload, FALSE)>>, r.value)

createTrigger(org, triggerName, objectName, triggerBody, net) ==
    Awaited(metadataCreateTrigger(org,
                [fullName |-> triggerName, tableEnumOrId |-> objectName,
                 status |-> "Active", body |-> triggerBody],
                net),
            "metadata.create", "ApexTrigger", triggerName)

updateTrigger(org, triggerName, triggerBody, net) ==
    Awaited(metadataUpdateTrigger(org, [fullName |-> triggerName, body |-> triggerBody],
                                  net),
            "metadata.update", "ApexTrigger", triggerName)

createApexClass(org, className, classBody, net) ==
    Awaited(metadataCreateClass(org,
                [fullName |-> className, status |-> "Active", body |-> classBody],
                net),
            "metadata.create", "ApexClass", className)

----------------------------------------------------------------------------
(* createIntegration, step by step. Each step is written as the call it    *)
(* awaits followed by what the code does with the answer.                  *)

Text(text) == <<[type |-> "text", text |-> text]>>

\* One line of the steps array.
Line(mark, text, detail) == [mark |-> mark, text |-> text, detail |-> detail]

\* Step 1 in the catch of describe, once createIntegrationConfigObject has
\* returned or thrown (made): an error thrown while provisioning leaves
\* createIntegration.
ensureSchemaCreated(made) ==
    IF made.thrown
    THEN Thrown(made.org,
                <<Call("describe", ConfigObject, Undefined, FALSE)>> \o made.calls,
                made.value)
    ELSE Returned(made.org,
                  <<Call("describe", ConfigObject, Undefined, FALSE)>> \o made.calls,
                  <<Line("ok", "Created Integration_Config__c custom object", Undefined)>>)

\* ensureSchemaProbed reporting a schema line also when describe finds the
\* object.
ensureSchemaReported(probe, net) ==
    IF probe.ok
    THEN Returned(probe.org, <<Call("describe", ConfigObject, Undefined, TRUE)>>,
                  <<Line("ok", "Created Integration_Config__c custom object", Undefined)>>)
    ELSE ensureSchemaCreated(createIntegrationConfigObject(probe.org, net))

\* Step 1 once describe has answered probe: when it rejected, provision.
ensureSchemaProbed(probe, net) ==
    IF probe.ok
    THEN Returned(probe.org, <<Call("describe", ConfigObject, Undefined, TRUE)>>, <<>>)
    ELSE ensureSchemaCreated(createIntegrationConfigObject(probe.org, net))

\* Step 1: describe the custom object; when describe rejects, provision it.
ensureSchema(org, net) == ensureSchemaProbed(describe(org, net), net)

integrationRecord(config) ==
    [ Name                |-> Get(config, "name"),
      Type__c             |-> Get(config, "type"),
      Endpoint__c         |-> Get(config, "endpoint"),
      Auth_Type__c        |-> Get(config, "authType"),
      Auth_Config__c      |-> JSONstringify(IF Has(config, "authConfig")
                                            THEN config.authConfig ELSE <<>>),
      Object_Name__c      |-> Get(config, "objectName"),
      Trigger_Events__c   |-> Join(config.triggerEvents, ","),
      Message_Template__c |-> Get(config, "messageTemplate"),
      Condition__c        |-> IF Has(config, "condition") THEN config.condition ELSE "",
      Active__c           |-> Get(config, "active") ]

\* Step 2 once the insert has answered r; its rejection is not caught.
storeRecordInserted(r, config) ==
    IF r.ok
    THEN Returned(r.org,
                  <<Call("sobject.create", ConfigObject, Get(config, "name"), TRUE)>>,
                  <<Line("ok", "Created integration config record", r.value.id)>>)
    ELSE Thrown(r.org,
                <<Call("sobject.create", ConfigObject, Get(config, "name"), FALSE)>>,
                r.value)

\* Step 2: build and insert the configuration record. Reading a property of
\* an undefined config, or joining undefined triggerEvents, throws.
storeRecord(org, config, net) ==
    IF ~IsObject(config) \/ ~Has(config, "triggerEvents")
    THEN Thrown(org, <<>>, TypeError)
    ELSE storeRecordInserted(sobjectCreate(org, integrationRecord(config), net), config)

\* deployTriggerUpdated reporting the trigger as created whatever the calls
\* answered.
deployTriggerQuiet(made, upd, triggerName) ==
    Returned(upd.org, made.calls \o upd.calls,
             <<Line("ok", "Created trigger", triggerName)>>)

\* Step 3 in the catch of createTrigger (made), once updateTrigger has
\* returned or thrown (upd): when that rejected too, warn.
deployTriggerUpdated(made, upd, triggerName) ==
    IF ~upd.thrown
    THEN Returned(upd.org, made.calls \o upd.calls,
                  <<Line("ok", "Updated existing trigger", triggerName)>>)
    ELSE Returned(upd.org, made.calls \o upd.calls,
                  <<Line("warning", "Could not create/update trigger", upd.value)>>)

\* Step 3 once createTrigger has returned or thrown (made): when it threw,
\* update the trigger.
deployTriggerCreated(made, config, net) ==
    IF ~made.thrown
    THEN Returned(made.org, made.calls,
                  <<Line("ok", "Created trigger", TriggerName(Get(config, "objectName")))>>)
    ELSE deployTriggerUpdated(made,
             updateTrigger(made.org, TriggerName(Get(config, "objectName")),
                           generateTriggerCode(config), net),
             TriggerName(Get(config, "objectName")))

\* Step 3: create the trigger of the object.
deployTrigger(org, config, net) ==
    deployTriggerCreated(
        createTrigger(org, TriggerName(Get(config, "objectName")),
                      Get(config, "objectName"), generateTriggerCode(config), net),
        config, net)

\* deployClassCreated reporting the class as created when it is a duplicate.
deployClassRecreated(made) ==
    IF ~made.thrown \/ Includes(made.value.message, "DUPLICATE_VALUE")
    THEN Returned(made.org, made.calls,
                  <<Line("ok", "Created utility class", UtilityClassName)>>)
    ELSE Returned(made.org, made.calls,
                  <<Line("warning", "Could not create utility class", made.value)>>)

\* Step 4 once createApexClass has returned or thrown (made): a
\* DUPLICATE_VALUE rejection counts as present, any other is a warning.
deployClassCreated(made) ==
    IF ~made.thrown
    THEN Returned(made.org, made.calls,
                  <<Line("ok", "Created utility class", UtilityClassName)>>)
    ELSE IF Includes(made.value.message, "DUPLICATE_VALUE")
    THEN Returned(made.org, made.calls,
                  <<Line("ok", "Utility class already exists", UtilityClassName)>>)
    ELSE Returned(made.org, made.calls,
                  <<Line("warning", "Could not create utility class", made.value)>>)

\* Step 4: create the utility class.
deployClass(org, net) ==
    deployClassCreated(createApexClass(org, UtilityClassName, generateUtilityClass, net))

\* The return of createIntegration: s1..s4 are what the four steps left.
createIntegrationSummary(s1, s2, s3, s4, config) ==
    Returned(s4.org, s1.calls \o s2.calls \o s3.calls \o s4.calls,
             [ content |-> Text(
                 [ head    |-> "created successfully",
                   name    |-> Get(config, "name"),
                   \* steps.join('\n'): one line each
                   steps   |-> s1.value \o s2.value \o s3.value \o s4.value,
                   type    |-> Get(config, "type"),
                   object  |-> Get(config, "objectName"),
                   events  |-> Join(config.triggerEvents, ", "),
                   status  |-> IF Has(config, "active") /\ config.active
                               THEN "Active" ELSE "Inactive",
                   trailer |-> Join(config.triggerEvents, "/") ]) ])

\* createIntegration from step 3 on: s1 and s2 are what steps 1 and 2 left;
\* an error thrown by step 2 leaves createIntegration.
createIntegrationDeploy(s1, s2, s3, config, net) ==
    createIntegrationSummary(s1, s2, s3, deployClass(s3.org, net), config)

\* createIntegrationStored going on to the deployments when step 2 threw.
createIntegrationStoredAnyway(s1, s2, config, net) ==
    createIntegrationDeploy(s1, [s2 EXCEPT !.value = IF s2.thrown THEN <<>> ELSE @],
                            deployTrigger(s2.org, config, net), config, net)

createIntegrationStored(s1, s2, config, net) ==
    IF s2.thrown THEN Thrown(s2.org, s1.calls \o s2.calls, s2.value)
    ELSE createIntegrationDeploy(s1, s2, deployTrigger(s2.org, config, net), config, net)

\* createIntegration from step 2 on: s1 is what step 1 left.
createIntegrationEnsured(s1, config, net) ==
    IF s1.thrown THEN s1
    ELSE createIntegrationStored(s1, storeRecord(s1.org, config, net), config, net)

createIntegration(org, config, net) ==
    createIntegrationEnsured(ensureSchema(org, net), config, net)

----------------------------------------------------------------------------
(* The record calls of list, update, delete and activate.                  *)

RECURSIVE ByCreatedDateDesc(_)
\* ORDER BY CreatedDate DESC: the record inserted last comes first.
ByCreatedDateDesc(recs) ==
    IF recs = {} THEN <<>>
    ELSE LET last == CHOOSE r \in recs : \A q \in recs : q.Id <= r.Id
         IN  <<last>> \o ByCreatedDateDesc(recs \ {last})

ListColumns == {"Type__c", "Object_Name__c", "Trigger_Events__c", "Active__c"}

\* conn.query('SELECT Name, Type__c, ... FROM Integration_Config__c ORDER BY
\* CreatedDate DESC')
queryAll(org, net) ==
    IF "query" \in net THEN Rejected(org, <<"REQUEST_FAILED">>)
    ELSE IF ~org.customObject THEN Rejected(org, <<"INVALID_TYPE">>)
    ELSE IF ~(ListColumns \subseteq org.customFields)
         THEN Rejected(org, <<"INVALID_FIELD">>)
    ELSE LET sorted == ByCreatedDateDesc(org.records)
         IN  Resolved(org, [records |->
                 [i \in 1..Len(sorted) |->
                     [c \in ListColumns \cup {"Name"} |-> sorted[i][c]]]])

\* conn.query("SELECT Id FROM Integration_Config__c WHERE Name = '<name>'"):
\* the query states no order, so any of the matching records can come first;
\* first is the Id the platform puts first when it matches.
queryByName(org, integrationName, first, net) ==
    IF "query" \in net THEN Rejected(org, <<"REQUEST_FAILED">>)
    ELSE IF ~org.customObject THEN Rejected(org, <<"INVALID_TYPE">>)
    ELSE LET found == {r \in org.records : r.Name = integrationName}
             head == {r \in found : r.Id = first}
             rows == ByCreatedDateDesc(head) \o ByCreatedDateDesc(found \ head)
         IN  Resolved(org, [records |-> [i \in 1..Len(rows) |-> [Id |-> rows[i].Id]]])

\* conn.sobject('Integration_Config__c').update({Name, ...fields}): the update
\* the handlers issue names its target by Name; it rejects when no record has
\* that Name or a field does not exist, and otherwise sets the given fields
\* of the records of that Name.
sobjectUpdate(org, payload, net) ==
    IF "update" \in net THEN Rejected(org, <<"REQUEST_FAILED">>)
    ELSE IF ~org.customObject THEN Rejected(org, <<"INVALID_TYPE">>)
    ELSE IF ~(DOMAIN payload \ {"Name"} \subseteq org.customFields)
         THEN Rejected(org, <<"INVALID_FIELD">>)
    ELSE IF ~\E r \in org.records : r.Name = payload.Name
         THEN Rejected(org, <<"NOT_FOUND">>)
    ELSE Resolved([org EXCEPT !.records =
                      {IF r.Name = payload.Name
                       THEN [k \in DOMAIN r |-> IF k \in DOMAIN payload
                                                THEN payload[k] ELSE r[k]]
                       ELSE r : r \in @}],
                  TRUE)

\* conn.sobject('Integration_Config__c').delete(id)
sobjectDelete(org, id, net) ==
    IF "delete" \in net THEN Rejected(org, <<"REQUEST_FAILED">>)
    ELSE IF ~\E r \in org.records : r.Id = id THEN Rejected(org, <<"NOT_FOUND">>)
    ELSE Resolved([org EXCEPT !.records = {r \in @ : r.Id # id}], TRUE)

----------------------------------------------------------------------------
(* listIntegrations, updateIntegration, deleteIntegration and              *)
(* activateIntegration.                                                    *)

\* listIntegrationsQueried letting the rejection of the query through.
listIntegrationsThrowing(results) ==
    IF ~results.ok
    THEN Thrown(results.org, <<Call("query", ConfigObject, "list", FALSE)>>,
                results.value)
    ELSE Returned(results.org, <<Call("query", ConfigObject, "list", TRUE)>>,
             [content |-> Text([head |-> "Your Integrations",
                                total |-> Len(results.value.records)])])

\* listIntegrations once its query has answered results: the catch and the
\* zero-record branch return the empty-state texts.
listIntegrationsQueried(results) ==
    IF ~results.ok
    THEN Returned(results.org, <<Call("query", ConfigObject, "list", FALSE)>>,
             [content |-> Text([head |-> "No integrations found",
                                hint |-> "The Integration_Config__c object may not exist yet"])])
    ELSE IF Len(results.value.records) = 0
    THEN Returned(results.org, <<Call("query", ConfigObject, "list", TRUE)>>,
             [content |-> Text([head |-> "No integrations found",
                                hint |-> "Use 'create' operation"])])
    ELSE Returned(results.org, <<Call("query", ConfigObject, "list", TRUE)>>,
             [content |-> Text(
                 [head  |-> "Your Integrations",
                  total |-> Len(results.value.records),
                  integrationsList |->
                      [i \in 1..Len(results.value.records) |->
                          [name   |-> results.value.records[i].Name,
                           type   |-> results.value.records[i].Type__c,
                           object |-> results.value.records[i].Object_Name__c,
                           events |-> results.value.records[i].Trigger_Events__c,
                           status |-> IF results.value.records[i].Active__c
                                      THEN "Active" ELSE "Inactive"]]])])

listIntegrations(org, net) == listIntegrationsQueried(queryAll(org, net))

\* A non-empty string is truthy.
Truthy(text) == text # ""

\* updateData copying all five fields, given or not.
updateDataAll(config) ==
    [ Endpoint__c         |-> Get(config, "endpoint"),
      Auth_Config__c      |-> JSONstringify(IF Has(config, "authConfig")
                                            THEN config.authConfig ELSE <<>>),
      Message_Template__c |-> Get(config, "messageTemplate"),
      Condition__c        |-> Get(config, "condition"),
      Active__c           |-> Get(config, "active") ]

\* The fields updateIntegration copies from config into updateData.
updateData(config) ==
    LET endpoint == IF Has(config, "endpoint") /\ Truthy(config.endpoint)
                    THEN [k \in {"Endpoint__c"} |-> config.endpoint] ELSE <<>>
        authConfig == IF Has(config, "authConfig")
                      THEN [k \in {"Auth_Config__c"} |-> JSONstringify(config.authConfig)]
                      ELSE <<>>
        messageTemplate == IF Has(config, "messageTemplate") /\ Truthy(config.messageTemplate)
                           THEN [k \in {"Message_Template__c"} |-> config.messageTemplate]
                           ELSE <<>>
        condition == IF Has(config, "condition")
                     THEN [k \in {"Condition__c"} |-> config.condition] ELSE <<>>
        active == IF Has(config, "active")
                  THEN [k \in {"Active__c"} |-> config.active] ELSE <<>>
    IN  endpoint @@ authConfig @@ messageTemplate @@ condition @@ active

\* The text of a handler that went through, or the error its update threw:
\* result is what the update of payload answered.
Updated(result, payload, head, integrationName) ==
    IF ~result.ok
    THEN Thrown(result.org,
                <<Call("sobject.update", ConfigObject, payload, FALSE)>>, result.value)
    ELSE Returned(result.org, <<Call("sobject.update", ConfigObject, payload, TRUE)>>,
             [content |-> Text([head |-> head, name |-> integrationName])])

\* updateIntegration with the payload built: {Name: integrationName,
\* ...updateData}.
updateIntegrationWith(org, integrationName, payload, net) ==
    Updated(sobjectUpdate(org, payload, net), payload, "updated successfully",
            integrationName)

updateIntegration(org, integrationName, config, net) ==
    IF ~IsObject(config) THEN Thrown(org, <<>>, TypeError)
    ELSE updateIntegrationWith(org, integrationName,
             [k \in {"Name"} |-> integrationName] @@ updateData(config), net)

\* deleteIntegrationDeleted retracting the deployed triggers along with the
\* record.
deleteIntegrationRetracting(gone, id, integrationName) ==
    IF ~gone.ok
    THEN Thrown(gone.org,
                <<Call("query", ConfigObject, integrationName, TRUE),
                  Call("sobject.delete", ConfigObject, id, FALSE)>>, gone.value)
    ELSE Returned([gone.org EXCEPT !.triggers = {}],
                  <<Call("query", ConfigObject, integrationName, TRUE),
                    Call("sobject.delete", ConfigObject, id, TRUE)>>,
             [content |-> Text([head |-> "deleted successfully",
                                name |-> integrationName])])

\* deleteIntegration once the delete of the record id has answered gone.
deleteIntegrationDeleted(gone, id, integrationName) ==
    IF ~gone.ok
    THEN Thrown(gone.org,
                <<Call("query", ConfigObject, integrationName, TRUE),
                  Call("sobject.delete", ConfigObject, id, FALSE)>>, gone.value)
    ELSE Returned(gone.org,
                  <<Call("query", ConfigObject, integrationName, TRUE),
                    Call("sobject.delete", ConfigObject, id, TRUE)>>,
             [content |-> Text([head |-> "deleted successfully",
                                name |-> integrationName])])

\* deleteIntegrationQueried reporting success when the lookup finds no
\* record.
deleteIntegrationSilent(results, integrationName, net) ==
    IF ~results.ok
    THEN Thrown(results.org, <<Call("query", ConfigObject, integrationName, FALSE)>>,
                results.value)
    ELSE IF Len(results.value.records) = 0
    THEN Returned(results.org, <<Call("query", ConfigObject, integrationName, TRUE)>>,
             [content |-> Text([head |-> "deleted successfully",
                                name |-> integrationName])])
    ELSE deleteIntegrationDeleted(
             sobjectDelete(results.org, results.value.records[1].Id, net),
             results.value.records[1].Id, integrationName)

\* deleteIntegration once the lookup has answered results: a rejected lookup
\* throws its error, an empty one the not-found error; otherwise the first
\* record found is deleted.
deleteIntegrationQueried(results, integrationName, net) ==
    IF ~results.ok
    THEN Thrown(results.org, <<Call("query", ConfigObject, integrationName, FALSE)>>,
                results.value)
    ELSE IF Len(results.value.records) = 0
    THEN Thrown(results.org, <<Call("query", ConfigObject, integrationName, TRUE)>>,
                Error(<<"Integration", integrationName, "not found">>))
    ELSE deleteIntegrationDeleted(
             sobjectDelete(results.org, results.value.records[1].Id, net),
             results.value.records[1].Id, integrationName)

deleteIntegration(org, integrationName, first, net) ==
    deleteIntegrationQueried(queryByName(org, integrationName, first, net),
                             integrationName, net)

\* activateIntegrationWith clearing the endpoint along with the flag.
activateIntegrationWide(org, integrationName, active, payload, net) ==
    Updated(sobjectUpdate(org, [Endpoint__c |-> ""] @@ payload, net), payload,
            IF active THEN "activated successfully" ELSE "deactivated successfully",
            integrationName)

\* activateIntegration with the payload built.
activateIntegrationWith(org, integrationName, active, payload, net) ==
    Updated(sobjectUpdate(org, payload, net), payload,
            IF active THEN "activated successfully" ELSE "deactivated successfully",
            integrationName)

activateIntegration(org, integrationName, active, net) ==
    activateIntegrationWith(org, integrationName, active,
                            [Name |-> integrationName, Active__c |-> active], net)

----------------------------------------------------------------------------
(* handleManageIntegrations: the dispatch and its catch.                   *)

\* The interpolation of an undefined integrationName.
UndefinedName == <<"undefined">>

Operations == {"create", "list", "update", "delete", "activate", "deactivate"}

\* The switch over args.operation; the default case throws.
dispatch(org, args, first, net) ==
    CASE args.operation = "create" -> createIntegration(org, args.config, net)
      [] args.operation = "list" -> listIntegrations(org, net)
      [] args.operation = "update" ->
            updateIntegration(org, args.integrationName, args.config, net)
      [] args.operation = "delete" ->
            deleteIntegration(org, args.integrationName, first, net)
      [] args.operation = "activate" ->
            activateIntegration(org, args.integrationName, TRUE, net)
      [] args.operation = "deactivate" ->
            activateIntegration(org, args.integrationName, FALSE, net)
      [] OTHER -> Thrown(org, <<>>, Error(<<"Unknown operation", args.operation>>))

\* Whatever the operation throws is returned as a text; the returned object
\* has a content and nothing else.
handleManageIntegrationsCatch(done) ==
    IF ~done.thrown THEN done
    ELSE Returned(done.org, done.calls,
             [content |-> Text([head |-> "Error managing integration",
                                message |-> done.value.message])])

handleManageIntegrations(org, args, first, net) ==
    handleManageIntegrationsCatch(dispatch(org, args, first, net))

----------------------------------------------------------------------------
(* quickSetupIntegration.ts                                                *)

\* obj[key] || fallback, for strings.
OrElse(obj, key, fallback) ==
    IF Has(obj, key) /\ Truthy(obj[key]) THEN obj[key] ELSE fallback

\* A property copied from another object: absent when it is undefined there.
Copy(obj, key, as) == IF Has(obj, key) THEN [k \in {as} |-> obj[key]] ELSE <<>>

QuickSetupTypes == {"whatsapp_lead", "slack_opportunity", "email_case", "webhook_custom"}

WhatsAppEndpoint == "https://graph.facebook.com/v17.0/YOUR_PHONE_NUMBER_ID/messages"
SendGridEndpoint == "https://api.sendgrid.com/v3/mail/send"

\* The configuration of a preset; now is Date.now(). thrown for a type that
\* is none of the four.
createQuickSetupConfig(args, now) ==
    LET baseConfig ==
            [ name          |-> <<args.type, "_", args.objectName, "_", now>>,
              objectName    |-> args.objectName,
              triggerEvents |-> <<"insert">>,
              active        |-> TRUE ]
            @@ Copy(args.config, "messageTemplate", "messageTemplate")
            @@ Copy(args.config, "condition", "condition")
    IN  CASE args.type = "whatsapp_lead" ->
               [ thrown |-> FALSE,
                 value |->
                   [ type       |-> "whatsapp",
                     endpoint   |-> WhatsAppEndpoint,
                     authType   |-> "bearer",
                     authConfig |-> << <<"token", Get(args.config, "whatsappApiToken")>>,
                                       <<"phoneNumber", Get(args.config, "phoneNumber")>> >> ]
                   @@ baseConfig ]
          [] args.type = "slack_opportunity" ->
               [ thrown |-> FALSE,
                 value |->
                   [ type          |-> "slack",
                     endpoint      |-> OrElse(args.config, "slackWebhookUrl", ""),
                     authType      |-> "none",
                     authConfig    |-> << <<"channel",
                                            OrElse(args.config, "slackChannel", "#sales")>> >>,
                     triggerEvents |-> <<"insert", "update">> ]
                   @@ baseConfig ]
          [] args.type = "email_case" ->
               [ thrown |-> FALSE,
                 value |->
                   [ type       |-> "email",
                     endpoint   |-> OrElse(args.config, "emailEndpoint", SendGridEndpoint),
                     authType   |-> "api_key",
                     authConfig |-> << <<"apiKey", Get(args.config, "emailApiKey")>> >> ]
                   @@ baseConfig ]
          [] args.type = "webhook_custom" ->
               [ thrown |-> FALSE,
                 value |->
                   [ type       |-> "webhook",
                     endpoint   |-> OrElse(args.config, "webhookUrl", ""),
                     authType   |-> "none",
                     authConfig |-> IF Has(args.config, "webhookHeaders")
                                    THEN args.config.webhookHeaders ELSE <<>> ]
                   @@ baseConfig ]
          [] OTHER ->
               [ thrown |-> TRUE,
                 value |-> Error(<<"Unknown quick setup type", args.type>>) ]

\* handleQuickSetupIntegrationWith forwarding insert as the only event.
handleQuickSetupIntegrationInsertOnly(org, integrationConfig, net) ==
    IF integrationConfig.thrown
    THEN Returned(org, <<>>,
             [content |-> Text([head |-> "Error setting up quick integration",
                                message |-> integrationConfig.value.message])])
    ELSE handleManageIntegrations(org,
             [operation |-> "create", integrationName |-> UndefinedName,
              config |-> [triggerEvents |-> <<"insert">>] @@ integrationConfig.value],
             0, net)

\* handleQuickSetupIntegrationWith forwarding the configuration as inactive.
handleQuickSetupIntegrationInactive(org, integrationConfig, net) ==
    IF integrationConfig.thrown
    THEN Returned(org, <<>>,
             [content |-> Text([head |-> "Error setting up quick integration",
                                message |-> integrationConfig.value.message])])
    ELSE handleManageIntegrations(org,
             [operation |-> "create", integrationName |-> UndefinedName,
              config |-> [active |-> FALSE] @@ integrationConfig.value],
             0, net)

\* handleQuickSetupIntegration once createQuickSetupConfig has returned or
\* thrown: the catch returns the text of the error, the config goes to
\* handleManageIntegrations as a create.
handleQuickSetupIntegrationWith(org, integrationConfig, net) ==
    IF integrationConfig.thrown
    THEN Returned(org, <<>>,
             [content |-> Text([head |-> "Error setting up quick integration",
                                message |-> integrationConfig.value.message])])
    ELSE handleManageIntegrations(org,
             [operation |-> "create", integrationName |-> UndefinedName,
              config |-> integrationConfig.value],
             0, net)

handleQuickSetupIntegration(org, args, now, net) ==
    handleQuickSetupIntegrationWith(org, createQuickSetupConfig(args, now), net)

----------------------------------------------------------------------------
(* connection.ts                                                           *)

\* process.env[key] || fallback: an unset variable and an empty one are both
\* the empty string here.
EnvOr(env, key, fallback) == IF env[key] # "" THEN env[key] ELSE fallback

createUserPasswordConnection(env, net) ==
    LET instanceUrl == EnvOr(env, "SALESFORCE_INSTANCE_URL", "https://login.salesforce.com")
    IN  IF env.SALESFORCE_USERNAME = "" \/ env.SALESFORCE_PASSWORD = ""
           \/ env.SALESFORCE_TOKEN = ""
        THEN [calls |-> <<>>, thrown |-> TRUE,
              value |-> Error(<<"Missing required Salesforce credentials",
                                "SALESFORCE_USERNAME", "SALESFORCE_PASSWORD",
                                "SALESFORCE_TOKEN">>)]
        ELSE LET cs == <<Call("login", instanceUrl,
                              <<env.SALESFORCE_USERNAME,
                                env.SALESFORCE_PASSWORD, env.SALESFORCE_TOKEN>>,
                              "login" \notin net)>>
             IN  IF "login" \in net
                 THEN [calls |-> cs, thrown |-> TRUE, value |-> Error(<<"INVALID_LOGIN">>)]
                 ELSE [calls |-> cs, thrown |-> FALSE, value |-> [loginUrl |-> instanceUrl]]

createOAuthConnection(env, net) ==
    IF env.SALESFORCE_CLIENT_ID = "" \/ env.SALESFORCE_CLIENT_SECRET = ""
       \/ env.SALESFORCE_INSTANCE_URL = ""
    THEN [calls |-> <<>>, thrown |-> TRUE,
          value |-> Error(<<"Missing required OAuth credentials",
                            "SALESFORCE_CLIENT_ID", "SALESFORCE_CLIENT_SECRET",
                            "SALESFORCE_INSTANCE_URL">>)]
    ELSE LET tokenUrl == <<env.SALESFORCE_INSTANCE_URL, "/services/oauth2/token">>
             cs == <<Call("fetch", tokenUrl,
                          <<"client_credentials", env.SALESFORCE_CLIENT_ID,
                            env.SALESFORCE_CLIENT_SECRET>>,
                          "login" \notin net)>>
         IN  IF "login" \in net
             THEN [calls |-> cs, thrown |-> TRUE,
                   value |-> Error(<<"OAuth authentication failed", "statusText">>)]
             ELSE [calls |-> cs, thrown |-> FALSE,
                   value |-> [instanceUrl |-> "tokenData.instance_url",
                              accessToken |-> "tokenData.access_token"]]

\* createSalesforceConnection taking any flag that is set for the
\* client-credentials one.
createSalesforceConnectionAnyFlag(env, net) ==
    IF env.SALESFORCE_CONNECTION_TYPE # ""
    THEN createOAuthConnection(env, net)
    ELSE createUserPasswordConnection(env, net)

createSalesforceConnection(env, net) ==
    LET connectionType == EnvOr(env, "SALESFORCE_CONNECTION_TYPE", "User_Password")
    IN  IF connectionType = "OAuth_2.0_Client_Credentials"
        THEN createOAuthConnection(env, net)
        ELSE createUserPasswordConnection(env, net)

----------------------------------------------------------------------------
(* index.ts: the CallToolRequestSchema handler.                            *)

ManageTool == "salesforce_manage_integrations"
QuickSetupTool == "salesforce_quick_setup_integration"

\* What the handler's own catch returns.
ErrorResult(error) ==
    [content |-> Text([head |-> "Error", message |-> error.message]),
     isError |-> TRUE]

\* One tool invocation: the org it leaves, the remote calls it issued and
\* the result it returned.
Handled(org, calls, result) == [org |-> org, calls |-> calls, result |-> result]

\* What the handler returns when a tool handler returned done, conn being
\* the connection it was given.
HandledBy(conn, done) == Handled(done.org, conn.calls \o done.calls, done.value)

\* The handler once createSalesforceConnection has returned or thrown
\* (conn): the switch over the tool name, with the argument checks of each
\* case.
CallToolSwitch(org, conn, name, args, now, first, net) ==
    IF conn.thrown THEN Handled(org, conn.calls, ErrorResult(conn.value))
    ELSE
    CASE name = ManageTool ->
          IF ~(Has(args, "operation") /\ Truthy(args.operation))
          THEN Handled(org, conn.calls,
                   ErrorResult(Error(<<"operation is required for managing integrations">>)))
          ELSE HandledBy(conn,
                   handleManageIntegrations(org,
                       [ operation |-> args.operation,
                         integrationName |-> IF Has(args, "integrationName")
                                             THEN args.integrationName ELSE UndefinedName,
                         config |-> IF Has(args, "config") THEN args.config ELSE NoObject ],
                       first, net))
      [] name = QuickSetupTool ->
          IF ~(Has(args, "type") /\ Truthy(args.type)
               /\ Has(args, "objectName") /\ Truthy(args.objectName)
               /\ Has(args, "config"))
          THEN Handled(org, conn.calls,
                   ErrorResult(Error(<<"type, objectName, and config are required for quick setup integration">>)))
          ELSE HandledBy(conn,
                   handleQuickSetupIntegration(org,
                       [type |-> args.type, objectName |-> args.objectName,
                        config |-> args.config],
                       now, net))
      [] OTHER ->
          Handled(org, conn.calls,
              [content |-> Text([head |-> "Unknown tool", name |-> name]),
               isError |-> TRUE])

CallToolRequest(org, env, request, now, first, net) ==
    IF ~Has(request.params, "arguments")
    THEN Handled(org, <<>>, ErrorResult(Error(<<"Arguments are required">>)))
    ELSE CallToolSwitch(org, createSalesforceConnection(env, net), request.params.name,
                        request.params.arguments, now, first, net)

----------------------------------------------------------------------------
(* The generated Apex: what the deployed trigger and the class             *)
(* IntegrationCalloutService do when a record event fires in the org.      *)
(*                                                                         *)
(* A text the Apex code edits is a sequence of tokens, each a tuple of     *)
(* strings: <<t>> is the literal text t and <<"{", f, "}">> the            *)
(* placeholder of field f. A triggering record is its populated fields     *)
(* with their values (texts), and the fields populated with null.          *)

Literal(text) == <<text>>
Placeholder(fieldName) == <<"{", fieldName, "}">>

\* The tokens of the message templates the configurations carry.
TemplateTokens(template) ==
    CASE template = "Hi {Name}" -> <<Literal("Hi "), Placeholder("Name")>>
      [] template = "Bye {Name}" -> <<Literal("Bye "), Placeholder("Name")>>
      [] OTHER -> <<Literal(template)>>

RECURSIVE StringReplace(_, _, _)
\* message.replace(target, replacement): every occurrence of the token.
StringReplace(message, target, replacement) ==
    IF message = <<>> THEN <<>>
    ELSE (IF Head(message) = target THEN replacement ELSE <<Head(message)>>)
         \o StringReplace(Tail(message), target, replacement)

RECURSIVE replaceMergeFields(_, _, _, _)
\* The loop of prepareMessage over fieldMap.keySet(), in the order keySet
\* iterates: a field whose value is not null has its placeholder replaced in
\* the message as it stands.
replaceMergeFields(message, record, keySet, i) ==
    IF i > Len(keySet) THEN message
    ELSE replaceMergeFields(
             IF keySet[i] \in DOMAIN record.fields
             THEN StringReplace(message, Placeholder(keySet[i]), record.fields[keySet[i]])
             ELSE message,
             record, keySet, i + 1)

\* keySet lists the populated fields of the record, null ones included.
prepareMessage(template, record, keySet) ==
    replaceMergeFields(template, record,
        SelectSeq(keySet, LAMBDA f : f \in DOMAIN record.fields \cup record.nulls), 1)

\* authConfig.containsKey(key) and authConfig.get(key) on the deserialized
\* Auth_Config__c.
ContainsKey(authConfig, key) == \E i \in 1..Len(authConfig.json) : authConfig.json[i][1] = key
MapGet(authConfig, key) ==
    authConfig.json[CHOOSE i \in 1..Len(authConfig.json) : authConfig.json[i][1] = key][2]

\* null where a text is expected.
NullText == <<Literal("null")>>

getPhoneFromRecord(record) ==
    IF "Phone" \in DOMAIN record.fields THEN record.fields.Phone
    ELSE IF "MobilePhone" \in DOMAIN record.fields THEN record.fields.MobilePhone
    ELSE NullText

getSlackChannelFromConfig(authConfig) ==
    IF ContainsKey(authConfig, "channel") THEN MapGet(authConfig, "channel") ELSE "#general"

\* The request makeCallout builds and sends: http.send either answers or
\* throws, and the exception is caught and logged.
makeCallout(config, message, record, net) ==
    Call("http.send", config.Endpoint__c,
         [ method  |-> "POST",
           config  |-> config.Id,
           headers |->
               [ ContentType   |-> "application/json",
                 Authorization |->
                     IF config.Auth_Type__c = "bearer"
                        /\ ContainsKey(config.Auth_Config__c, "token")
                     THEN MapGet(config.Auth_Config__c, "token") ELSE Undefined,
                 XAPIKey       |->
                     IF config.Auth_Type__c = "api_key"
                        /\ ContainsKey(config.Auth_Config__c, "apiKey")
                     THEN MapGet(config.Auth_Config__c, "apiKey") ELSE Undefined ],
           payload |->
               IF config.Type__c = "whatsapp"
               THEN [phone |-> getPhoneFromRecord(record), message |-> message]
               ELSE IF config.Type__c = "slack"
               THEN [text |-> message,
                     channel |-> getSlackChannelFromConfig(config.Auth_Config__c)]
               ELSE [message |-> message, data |-> record] ],
         "send" \notin net)

\* What handleIntegrationCallout leaves: the requests it sent, in order, and
\* the exception its catch logged, if any. The catch takes every exception:
\* none leaves the method.
Ran(calls, debug) == [calls |-> calls, caught |-> debug]

\* The loop over newRecords with the config the query returned.
processRecords(config, newRecords, keySet, net) ==
    Ran([i \in 1..Len(newRecords) |->
            makeCallout(config,
                        prepareMessage(TemplateTokens(config.Message_Template__c),
                                       newRecords[i], keySet),
                        newRecords[i], net)],
        "none")

\* Trigger.new and Trigger.old where the event has none.
NullList == <<[null |-> TRUE]>>

\* handleIntegrationCallout passing every configuration of the name, active
\* or not.
handleIntegrationCalloutAll(org, integrationName, newRecords, first, keySet, net) ==
    IF {r \in org.records : r.Name = integrationName} = {}
    THEN Ran(<<>>, "QueryException: List has no rows for assignment to SObject")
    ELSE IF newRecords = NullList
    THEN Ran(<<>>, "NullPointerException: Attempt to de-reference a null object")
    ELSE processRecords(
             CHOOSE r \in org.records :
                /\ r.Name = integrationName
                /\ (\E q \in org.records : q.Name = integrationName /\ q.Id = first)
                      => r.Id = first,
             newRecords, keySet, net)

\* handleIntegrationCallout: the query for the active configuration of the
\* name (LIMIT 1 and no order: first is the Id the platform puts first when
\* it matches); assigning an empty result throws, and so does the loop over
\* a null list; the catch logs what is thrown.
handleIntegrationCallout(org, integrationName, newRecords, first, keySet, net) ==
    IF {r \in org.records : r.Name = integrationName /\ r.Active__c = TRUE} = {}
    THEN Ran(<<>>, "QueryException: List has no rows for assignment to SObject")
    ELSE IF newRecords = NullList
    THEN Ran(<<>>, "NullPointerException: Attempt to de-reference a null object")
    ELSE processRecords(
             CHOOSE r \in org.records :
                /\ r.Name = integrationName /\ r.Active__c = TRUE
                /\ (\E q \in org.records :
                       q.Name = integrationName /\ q.Active__c = TRUE /\ q.Id = first)
                      => r.Id = first,
             newRecords, keySet, net)

\* The trigger fires on the event when its header lists the event's clause.
FiresOn(trigger, objectName, event) ==
    /\ trigger.tableEnumOrId = objectName
    /\ \E i \in 1..Len(trigger.body.events) : trigger.body.events[i] = EventClause(event)

\* The body of the trigger: the handler is called with the name the code
\* was generated for and Trigger.new, which is null on delete.
runTrigger(org, trigger, event, records, first, keySet, net) ==
    handleIntegrationCallout(org, trigger.body.integrationName,
                             IF event = "delete" THEN NullList ELSE records,
                             first, keySet, net)

----------------------------------------------------------------------------
(* The state machine: one action per kind of request.                      *)

VARIABLES
    org,       \* the remote org
    env,       \* process.env, fixed when the process starts
    now,       \* the clock Date.now() reads
    request,   \* the most recent CallTool request
    result,    \* the result returned for it
    calls,     \* the remote calls issued for it, in order
    clean,     \* every invocation so far was a create or an update that
               \* returned its success text without a warning line
    pending    \* the invocations of the handler accepted while others were
               \* awaiting a remote call, each with the await it is at

vars == <<org, env, now, request, result, calls, clean, pending>>

PasswordEnv ==
    [ SALESFORCE_CONNECTION_TYPE |-> "",
      SALESFORCE_USERNAME |-> "user", SALESFORCE_PASSWORD |-> "pw",
      SALESFORCE_TOKEN |-> "tok", SALESFORCE_INSTANCE_URL |-> "",
      SALESFORCE_CLIENT_ID |-> "", SALESFORCE_CLIENT_SECRET |-> "" ]

OAuthEnv ==
    [ SALESFORCE_CONNECTION_TYPE |-> "OAuth_2.0_Client_Credentials",
      SALESFORCE_USERNAME |-> "", SALESFORCE_PASSWORD |-> "",
      SALESFORCE_TOKEN |-> "", SALESFORCE_INSTANCE_URL |-> "https://org.example",
      SALESFORCE_CLIENT_ID |-> "id", SALESFORCE_CLIENT_SECRET |-> "secret" ]

Names == {<<"A">>, <<"B">>}
Objects == {"Lead", "Case"}

\* The configurations create is called with: A listens to insert and is
\* created active, B listens to update and delete and is created inactive,
\* each on either object.
CreateConfigs ==
    { [ name |-> n, type |-> "webhook", endpoint |-> "https://e1",
        authType |-> "none", objectName |-> o,
        triggerEvents |-> IF n = <<"A">> THEN <<"insert">> ELSE <<"update", "delete">>,
        messageTemplate |-> "Hi {Name}", active |-> (n = <<"A">>) ] :
      n \in Names, o \in Objects }

Ids == 1..MaxIds

Request(name, args) == [params |-> [name |-> name, arguments |-> args]]

Lines(res) == res.content[1].text.steps

\* The result is the success text of create or update, without a warning.
CleanResult(req, res) ==
    /\ Has(req.params, "arguments")
    /\ req.params.name = ManageTool
    /\ Has(req.params.arguments, "operation")
    /\ \/ /\ req.params.arguments.operation = "create"
          /\ res.content[1].text.head = "created successfully"
          /\ \A i \in 1..Len(Lines(res)) : Lines(res)[i].mark = "ok"
       \/ /\ req.params.arguments.operation = "update"
          /\ res.content[1].text.head = "updated successfully"

Invoke(req, first, net) ==
    \E done \in {CallToolRequest(org, env, req, now, first, net)} :
        /\ org' = done.org
        /\ request' = req
        /\ result' = done.result
        /\ calls' = done.calls
        /\ clean' = (clean /\ CleanResult(req, done.result))
        /\ UNCHANGED <<env, pending>>

NoRequest == [params |-> [name |-> "none"]]
NoResult == [content |-> Text([head |-> "none"])]

Init ==
    /\ org = EmptyOrg
    /\ env = PasswordEnv
    /\ now = 0
    /\ request = NoRequest
    /\ result = NoResult
    /\ calls = <<>>
    /\ clean = TRUE
    /\ pending = <<>>

CreatePoints ==
    {"login", "describe", "CustomObject", "insert", "createTrigger",
     "updateTrigger", "createApexClass"} \cup FieldNames

\* The remote calls the platform rejects within one invocation: none, any
\* one, or the two deployment calls that fall back on each other.
CreateNets ==
    UpTo(CreatePoints, 1)
    \cup {{"createTrigger", "updateTrigger"}, {"createTrigger", "createApexClass"}}
RecordNets == UpTo({"login", "query", "update", "delete"}, 1)

Create ==
    \E config \in CreateConfigs, net \in CreateNets :
        /\ org.nextId <= MaxIds
        /\ Invoke(Request(ManageTool, [operation |-> "create", config |-> config]), 0, net)
        /\ UNCHANGED now

List ==
    \E net \in RecordNets :
        /\ Invoke(Request(ManageTool, [operation |-> "list"]), 0, net)
        /\ UNCHANGED now

Delete ==
    \E name \in Names, first \in Ids, net \in RecordNets :
        /\ Invoke(Request(ManageTool,
                          [operation |-> "delete", integrationName |-> name]), first, net)
        /\ UNCHANGED now

\* Requests the handler rejects or cannot dispatch.
Malformed ==
    \E req \in { [params |-> [name |-> ManageTool]],
                 Request(ManageTool, [integrationName |-> <<"A">>]),
                 Request(ManageTool, [operation |-> "rename", integrationName |-> <<"A">>]),
                 Request("salesforce_query_records", [objectName |-> "Lead"]) },
       net \in UpTo({"login"}, 1) :
        /\ Invoke(req, 0, net)
        /\ UNCHANGED now

Next == Create \/ List \/ Delete \/ Malformed

Spec == Init /\ [][Next]_vars

----------------------------------------------------------------------------
(* The state machine of update, activate and deactivate, on an org with    *)
(* at most one configuration.                                              *)

\* Either no property of the given key, or one of the given values.
Optional(key, values) == {<<>>} \cup {[k \in {key} |-> v] : v \in values}

\* The partial configs update is called with: each of the five properties
\* absent, falsy or truthy (authConfig, an object, absent or given).
PartialConfigs ==
    { e @@ a @@ m @@ c @@ x :
        e \in Optional("endpoint", {"", "https://e2"}),
        a \in Optional("authConfig", {<< <<"token", "t1">> >>}),
        m \in Optional("messageTemplate", {"", "Bye {Name}"}),
        c \in Optional("condition", {"", "Status = 'New'"}),
        x \in Optional("active", {TRUE, FALSE}) }

\* Configs carrying properties update does not copy, and no config at all.
OtherConfigs ==
    { [active |-> FALSE, name |-> <<"B">>, type |-> "slack", authType |-> "bearer",
       objectName |-> "Case", triggerEvents |-> <<"delete">>],
      NoObject }

UpdateInputs ==
    ({<<"A">>} \X (PartialConfigs \cup OtherConfigs) \X {{}})
    \cup (Names \X {[active |-> FALSE], [endpoint |-> "https://e2"]}
                \X UpTo({"login", "update"}, 1))

\* The one configuration of this state machine.
CreateFirst ==
    \E config \in {c \in CreateConfigs : c.name = <<"A">> /\ c.objectName = "Lead"} :
        /\ org.nextId = 1
        /\ Invoke(Request(ManageTool, [operation |-> "create", config |-> config]), 0, {})
        /\ UNCHANGED now

Update ==
    \E in \in UpdateInputs :
        /\ Invoke(Request(ManageTool,
                          IF in[2] = NoObject
                          THEN [operation |-> "update", integrationName |-> in[1]]
                          ELSE [operation |-> "update", integrationName |-> in[1],
                                config |-> in[2]]),
                  0, in[3])
        /\ UNCHANGED now

Activate ==
    \E name \in Names, net \in UpTo({"login", "update"}, 1) :
        /\ Invoke(Request(ManageTool,
                          [operation |-> "activate", integrationName |-> name]), 0, net)
        /\ UNCHANGED now

Deactivate ==
    \E name \in Names, net \in UpTo({"login", "update"}, 1) :
        /\ Invoke(Request(ManageTool,
                          [operation |-> "deactivate", integrationName |-> name]), 0, net)
        /\ UNCHANGED now

NextUpdate == CreateFirst \/ Update \/ Activate \/ Deactivate

SpecUpdate == Init /\ [][NextUpdate]_vars

----------------------------------------------------------------------------
(* The state machine of create, activate and deactivate: several           *)
(* configurations, created with and without rejected calls.                *)

NextActivate == Create \/ Activate \/ Deactivate

SpecActivate == Init /\ [][NextActivate]_vars

----------------------------------------------------------------------------
(* The state machine of requests that lack a required argument.            *)

\* The sub-fields of config the input schema of the tool requires.
RequiredFields ==
    {"name", "type", "endpoint", "authType", "objectName", "triggerEvents",
     "messageTemplate", "active"}

\* A config of create with one required sub-field left out, and no config.
IncompleteConfigs ==
    { [k \in DOMAIN c \ {f} |-> c[k]] :
        c \in {c \in CreateConfigs : c.name = <<"A">> /\ c.objectName = "Lead"},
        f \in RequiredFields }
    \cup {NoObject}

CreateIncomplete ==
    \E config \in IncompleteConfigs, net \in CreateNets :
        /\ org.nextId <= MaxIds
        /\ Invoke(Request(ManageTool,
                          IF config = NoObject THEN [operation |-> "create"]
                          ELSE [operation |-> "create", config |-> config]),
                  0, net)
        /\ UNCHANGED now

UpdateWithoutConfig ==
    \E name \in Names, net \in UpTo({"login"}, 1) :
        /\ Invoke(Request(ManageTool,
                          [operation |-> "update", integrationName |-> name]), 0, net)
        /\ UNCHANGED now

NextRequired == CreateIncomplete \/ UpdateWithoutConfig

SpecRequired == Init /\ [][NextRequired]_vars

----------------------------------------------------------------------------
(* The state machine of quick setup, with the clock Date.now() reads.      *)

\* The config of a quick setup with nothing but the message template, and
\* with every property a preset reads.
QuickConfigs ==
    { [messageTemplate |-> "Hi {Name}"],
      [ messageTemplate |-> "Hi {Name}", condition |-> "Status = 'New'",
        whatsappApiToken |-> "t1", phoneNumber |-> "555",
        slackWebhookUrl |-> "https://hooks.slack.example", slackChannel |-> "#leads",
        emailEndpoint |-> "https://mail.example", emailApiKey |-> "k1",
        webhookUrl |-> "https://hook.example",
        webhookHeaders |-> << <<"X-Key", "v1">> >> ] }

\* The arguments of quick setup: the four presets and a type that is none
\* of them, and arguments the handler refuses.
QuickArgs ==
    { [type |-> t, objectName |-> o, config |-> c] :
        t \in QuickSetupTypes \cup {"sms_contact"}, o \in Objects, c \in QuickConfigs }
    \cup { [type |-> "whatsapp_lead", objectName |-> "Lead"],
           [type |-> "", objectName |-> "Lead", config |-> [messageTemplate |-> "Hi"]],
           [objectName |-> "Lead", config |-> [messageTemplate |-> "Hi"]] }

QuickSetup ==
    \E args \in QuickArgs, net \in UpTo({"login", "insert"}, 1) :
        /\ org.nextId <= MaxIds
        /\ Invoke(Request(QuickSetupTool, args), 0, net)
        /\ UNCHANGED now

\* Time passes between requests.
Tick ==
    /\ now < MaxNow
    /\ now' = now + 1
    /\ UNCHANGED <<org, env, request, result, calls, clean, pending>>

NextQuick == QuickSetup \/ Tick

SpecQuick == Init /\ [][NextQuick]_vars

----------------------------------------------------------------------------
(* Record events in the org: the deployed triggers run the generated code. *)

\* The configurations of CreateConfigs, each also with a condition.
ConditionalConfigs ==
    CreateConfigs
    \cup {[condition |-> "Rating = 'Hot'"] @@ c : c \in CreateConfigs}

CreateConditional ==
    \E config \in ConditionalConfigs, net \in UpTo({"updateTrigger"}, 1) :
        /\ org.nextId <= MaxIds
        /\ Invoke(Request(ManageTool, [operation |-> "create", config |-> config]), 0, net)
        /\ UNCHANGED now

TriggerEvents == {"insert", "update", "delete"}

\* The records of an event: one with a name, one whose name is itself the
\* text of a placeholder, one whose name is null.
SObjects ==
    { [fields |-> [Name |-> <<Literal("Ann")>>], nulls |-> {}],
      [fields |-> [Name |-> <<Placeholder("Company")>>, Company |-> <<Literal("Acme")>>],
       nulls |-> {}],
      [fields |-> [Company |-> <<Literal("Acme")>>], nulls |-> {"Name"}] }

RecordLists ==
    {<<r>> : r \in SObjects}
    \cup {<<[fields |-> [Name |-> <<Literal("Ann")>>], nulls |-> {}],
            [fields |-> [Company |-> <<Literal("Acme")>>], nulls |-> {"Name"}]>>}

\* The orders in which keySet may list the fields.
KeySets == {<<"Name", "Company">>, <<"Company", "Name">>}

DmlRequest(event, objectName, records, integrationName) ==
    [params |-> [name |-> "dml",
                 arguments |-> [event |-> event, objectName |-> objectName,
                                records |-> records,
                                integrationName |-> integrationName]]]

\* Records of an object are inserted, updated or deleted: the trigger
\* deployed on the object runs, if its header lists the event and the class
\* it calls is deployed.
Fire ==
    \E event \in TriggerEvents, objectName \in Objects, records \in RecordLists,
       first \in Ids, keySet \in KeySets, net \in UpTo({"send"}, 1),
       trigger \in org.triggers :
        /\ FiresOn(trigger, objectName, event)
        /\ \E c \in org.classes : c.fullName = UtilityClassName
        /\ \E done \in {runTrigger(org, trigger, event, records, first, keySet, net)} :
              /\ request' = DmlRequest(event, objectName, records,
                                       trigger.body.integrationName)
              /\ result' = [caught |-> done.caught]
              /\ calls' = done.calls
        /\ UNCHANGED <<org, env, now, clean, pending>>

NextRemote == CreateConditional \/ Activate \/ Deactivate \/ Fire

SpecRemote == Init /\ [][NextRemote]_vars

----------------------------------------------------------------------------
(* The environments the server may be started in.                          *)

ConnectionTypes == {"", "User_Password", "OAuth_2.0_Client_Credentials", "oauth"}

\* Every variable is either unset ("") or set.
Envs ==
    { [ SALESFORCE_CONNECTION_TYPE |-> t,
        SALESFORCE_USERNAME |-> u, SALESFORCE_PASSWORD |-> p, SALESFORCE_TOKEN |-> k,
        SALESFORCE_INSTANCE_URL |-> i,
        SALESFORCE_CLIENT_ID |-> c, SALESFORCE_CLIENT_SECRET |-> x ] :
      t \in ConnectionTypes, u \in {"", "user"}, p \in {"", "pw"}, k \in {"", "tok"},
      i \in {"", "https://org.example"}, c \in {"", "id"}, x \in {"", "secret"} }

InitConnect ==
    /\ org = EmptyOrg
    /\ env \in Envs
    /\ now = 0
    /\ request = NoRequest
    /\ result = NoResult
    /\ calls = <<>>
    /\ clean = TRUE
    /\ pending = <<>>

NextConnect == List \/ Malformed

SpecConnect == InitConnect /\ [][NextConnect]_vars

----------------------------------------------------------------------------
(* Creates whose triggerEvents are any list of one or two events.          *)

EventLists ==
    {<<e>> : e \in TriggerEvents} \cup {<<e, f>> : e \in TriggerEvents, f \in TriggerEvents}

EventConfigs ==
    { [ name |-> n, type |-> "webhook", endpoint |-> "https://e1",
        authType |-> "none", objectName |-> o, triggerEvents |-> l,
        messageTemplate |-> "Hi {Name}", active |-> TRUE ] :
      n \in Names, o \in Objects, l \in EventLists }

CreateEvents ==
    \E config \in EventConfigs, net \in UpTo({"createTrigger"}, 1) :
        /\ org.nextId <= MaxIds
        /\ Invoke(Request(ManageTool, [operation |-> "create", config |-> config]), 0, net)
        /\ UNCHANGED now

NextTrigger == CreateEvents

SpecTrigger == Init /\ [][NextTrigger]_vars

----------------------------------------------------------------------------
(* The handler as the event loop runs it: an async function that gives up  *)
(* control at every await. The server registers it as a callback and holds *)
(* no lock and no queue of its own, so a request that arrives while an     *)
(* invocation awaits a remote call starts another invocation. Each step is *)
(* one invocation resumed with the answer of the call it awaited, run to   *)
(* its next await or to its return. Here calls logs the calls of every     *)
(* invocation, each with the index (by) of the invocation that issued it.  *)

AsyncConfigs == {c \in CreateConfigs : c.objectName = "Lead"}

\* An invocation of create suspended at the await of the call `at` (k is
\* the index of the field for the field loop), or returned with head.
Suspended(config, at, k) == [config |-> config, at |-> at, k |-> k, head |-> "pending"]
Finished(p, head) == [p EXCEPT !.at = "returned", !.head = head]

\* The call the invocation awaits, answered by the org as it is now.
awaited(o, e, p) ==
    CASE p.at = "login" -> [org |-> o] @@ createSalesforceConnection(e, {})
      [] p.at = "describe" ->
            Awaited(describe(o, {}), "describe", ConfigObject, Undefined)
      [] p.at = "CustomObject" ->
            Awaited(metadataCreateObject(o, {}), "metadata.create", "CustomObject",
                    ConfigObject)
      [] p.at = "CustomField" ->
            Awaited(metadataCreateField(o, fields[p.k], {}), "metadata.create",
                    "CustomField", fields[p.k].name)
      [] p.at = "insert" -> storeRecord(o, p.config, {})
      [] p.at = "createTrigger" ->
            createTrigger(o, TriggerName(p.config.objectName), p.config.objectName,
                          generateTriggerCode(p.config), {})
      [] p.at = "updateTrigger" ->
            updateTrigger(o, TriggerName(p.config.objectName),
                          generateTriggerCode(p.config), {})
      [] p.at = "createApexClass" ->
            createApexClass(o, UtilityClassName, generateUtilityClass, {})

\* Where the code goes once the awaited call has resolved or thrown: its
\* next await, or its return.
resumed(p, thrown) ==
    CASE p.at = "login" ->
            IF thrown THEN Finished(p, "Error") ELSE [p EXCEPT !.at = "describe"]
      [] p.at = "describe" ->
            IF thrown THEN [p EXCEPT !.at = "CustomObject"] ELSE [p EXCEPT !.at = "insert"]
      [] p.at = "CustomObject" ->
            IF thrown THEN Finished(p, "Error managing integration")
            ELSE [p EXCEPT !.at = "CustomField", !.k = 1]
      [] p.at = "CustomField" ->
            IF thrown THEN Finished(p, "Error managing integration")
            ELSE IF p.k < Len(fields) THEN [p EXCEPT !.k = @ + 1]
            ELSE [p EXCEPT !.at = "insert"]
      [] p.at = "insert" ->
            IF thrown THEN Finished(p, "Error managing integration")
            ELSE [p EXCEPT !.at = "createTrigger"]
      [] p.at = "createTrigger" ->
            IF thrown THEN [p EXCEPT !.at = "updateTrigger"]
            ELSE [p EXCEPT !.at = "createApexClass"]
      [] p.at = "updateTrigger" -> [p EXCEPT !.at = "createApexClass"]
      [] p.at = "createApexClass" -> Finished(p, "created successfully")

\* A create request arrives: the handler starts and runs to its first await,
\* the login of createSalesforceConnection.
Accept ==
    \E config \in AsyncConfigs :
        /\ Len(pending) < MaxCalls
        /\ pending' = Append(pending, Suspended(config, "login", 0))
        /\ request' = Request(ManageTool, [operation |-> "create", config |-> config])
        /\ UNCHANGED <<org, env, now, result, calls, clean>>

\* The call invocation i awaits is answered and the invocation goes on.
Resume ==
    \E i \in 1..Len(pending) :
        /\ pending[i].at # "returned"
        /\ \E done \in {awaited(org, env, pending[i])} :
              /\ org' = done.org
              /\ calls' = calls \o [j \in 1..Len(done.calls) |->
                                       [by |-> i] @@ done.calls[j]]
              /\ pending' = [pending EXCEPT ![i] = resumed(@, done.thrown)]
              /\ result' = IF resumed(pending[i], done.thrown).at = "returned"
                           THEN [content |->
                                    Text([head |-> resumed(pending[i], done.thrown).head])]
                           ELSE result
        /\ UNCHANGED <<env, now, request, clean>>

NextAsync == Accept \/ Resume

SpecAsync == Init /\ [][NextAsync]_vars

----------------------------------------------------------------------------
(* Reading the most recent invocation.                                     *)

\* The request is manage_integrations with the given operation.
IsManage(req, operation) ==
    /\ Has(req.params, "arguments")
    /\ req.params.name = ManageTool
    /\ Has(req.params.arguments, "operation")
    /\ req.params.arguments.operation = operation

TextOf(res) == res.content[1].text

ErrorFlag(res) == Has(res, "isError") /\ res.isError

ErrorHeads ==
    {"Error", "Unknown tool", "Error managing integration",
     "Error setting up quick integration"}

\* The result reports a failure.
Failed(res) == TextOf(res).head \in ErrorHeads

\* The remote calls of the log with the given api and target.
CallsTo(log, api, target) ==
    {i \in 1..Len(log) : log[i].api = api /\ log[i].target = target}

NoRecordNamed(o, name) == ~\E r \in o.records : r.Name = name

----------------------------------------------------------------------------
(* C1: delete of a name no record has.                                     *)

\* The handler of delete ran for name n: its lookup query was issued.
DeleteRan(req, log, n) ==
    /\ IsManage(req, "delete")
    /\ req.params.arguments.integrationName = n
    /\ CallsTo(log, "query", ConfigObject) # {}

\* The platform answered every remote call of the log: none was rejected for
\* a reason of the platform's own.
Answered(res) ==
    ~(Failed(res) /\ TextOf(res).message = <<"REQUEST_FAILED">>)

----------------------------------------------------------------------------
(* C3: list.                                                               *)

\* The handler of list ran: its query was issued.
ListRan(req, log) ==
    IsManage(req, "list") /\ CallsTo(log, "query", ConfigObject) # {}

\* C3: list never returns an error: it returns the empty-state text when
\* there is no configuration record or its query is rejected (as on an org
\* without the schema), and the list of all the records otherwise, without
\* an error flag, after any creates and deletes.
C3_ListNeverFails ==
    ListRan(request, calls) =>
        /\ ~ErrorFlag(result)
        /\ ~Failed(result)
        /\ LET q == calls[Len(calls)]
           IN  IF org.records = {} \/ ~q.ok
               THEN TextOf(result).head = "No integrations found"
               ELSE /\ TextOf(result).head = "Your Integrations"
                    /\ TextOf(result).total = Cardinality(org.records)

\* list answered with the empty-state text on an org whose schema was never
\* provisioned.
W3_ListWithoutSchema ==
    /\ ListRan(request, calls)
    /\ ~org.customObject
    /\ ~calls[Len(calls)].ok
    /\ TextOf(result).head = "No integrations found"

----------------------------------------------------------------------------
(* C4: the summary of create.                                              *)

\* The step a line of the summary reports.
StepOf(line) ==
    CASE line.text = "Created Integration_Config__c custom object" -> "schema"
      [] line.text = "Created integration config record" -> "record"
      [] line.text \in {"Created trigger", "Updated existing trigger",
                        "Could not create/update trigger"} -> "trigger"
      [] OTHER -> "class"

StepsOf(res) == [i \in 1..Len(Lines(res)) |-> StepOf(Lines(res)[i])]

Created(req, res) ==
    IsManage(req, "create") /\ TextOf(res).head = "created successfully"

\* C4 as stated: the summary of every create has one line per step, in the
\* order schema, record, trigger, class, the schema step included when it
\* was a probe of a schema already there.
X4_SummaryListsFourSteps ==
    Created(request, result) =>
        StepsOf(result) = <<"schema", "record", "trigger", "class">>

\* C4 amended: the summary of every create has one line for each of the
\* record, trigger and class steps, in that order, preceded by a schema line
\* exactly when this create provisioned the schema; a probe that finds the
\* schema present adds no line.
C4_SummaryListsStepsDone ==
    Created(request, result) =>
        /\ CallsTo(calls, "describe", ConfigObject) # {}
        /\ CallsTo(calls, "sobject.create", ConfigObject) # {}
        /\ CallsTo(calls, "metadata.create", "ApexTrigger") # {}
        /\ CallsTo(calls, "metadata.create", "ApexClass") # {}
        /\ StepsOf(result) =
              (IF CallsTo(calls, "metadata.create", "CustomObject") # {}
               THEN <<"schema">> ELSE <<>>) \o <<"record", "trigger", "class">>

\* A create that found the schema present and one that provisioned it.
W4_CreateOnExistingSchema ==
    /\ Created(request, result)
    /\ \E i \in CallsTo(calls, "describe", ConfigObject) : calls[i].ok
    /\ StepsOf(result) = <<"record", "trigger", "class">>

----------------------------------------------------------------------------
(* C5: the schema create relies on.                                        *)

\* C5 as stated: whenever create issues the record insert, the record type
\* exists with all nine fields; and a create whose probe finds the schema
\* issues no schema mutation.
X5_InsertOnlyIntoFullSchema ==
    IsManage(request, "create") =>
        /\ CallsTo(calls, "sobject.create", ConfigObject) # {}
              => org.customObject /\ org.customFields = FieldNames
        /\ (\E i \in CallsTo(calls, "describe", ConfigObject) : calls[i].ok)
              => /\ CallsTo(calls, "metadata.create", "CustomObject") = {}
                 /\ CallsTo(calls, "metadata.create", "CustomField") = {}

----------------------------------------------------------------------------
(* C6: partial failure of create.                                          *)

\* The remote calls of the log, of the given api and target, all rejected,
\* and there is one.
AllRejected(log, api, target) ==
    /\ CallsTo(log, api, target) # {}
    /\ \A i \in CallsTo(log, api, target) : ~log[i].ok

SchemaStepFailed(log) ==
    \/ AllRejected(log, "metadata.create", "CustomObject")
    \/ \E i \in CallsTo(log, "metadata.create", "CustomField") : ~log[i].ok

RecordStepFailed(log) == AllRejected(log, "sobject.create", ConfigObject)

TriggerStepFailed(log) ==
    /\ AllRejected(log, "metadata.create", "ApexTrigger")
    /\ AllRejected(log, "metadata.update", "ApexTrigger")

\* The class step fails when the class is neither created nor there already.
ClassStepFailed(log, before) ==
    /\ AllRejected(log, "metadata.create", "ApexClass")
    /\ before.classes = {}

\* A remote change made by the log: a call that creates or updates resolved.
ChangedBefore(log, k) ==
    \E i \in 1..(k - 1) :
        /\ log[i].ok
        /\ log[i].api \in {"metadata.create", "metadata.update", "sobject.create"}

\* A step of the log failed after an earlier call had changed the org.
PartialFailure(log, before) ==
    \E k \in 1..Len(log) :
        /\ ~log[k].ok
        /\ ChangedBefore(log, k)
        /\ \/ SchemaStepFailed(log) \/ RecordStepFailed(log)
           \/ TriggerStepFailed(log) \/ ClassStepFailed(log, before)

HasWarning(res) == \E i \in 1..Len(Lines(res)) : Lines(res)[i].mark = "warning"

\* The effect of every resolved call of the log is in the org.
Kept(log, o) ==
    \A i \in 1..Len(log) :
        log[i].ok =>
            CASE log[i].api = "metadata.create" /\ log[i].target = "CustomObject" ->
                    o.customObject
              [] log[i].api = "metadata.create" /\ log[i].target = "CustomField" ->
                    log[i].payload \in o.customFields
              [] log[i].api = "sobject.create" ->
                    \E r \in o.records : r.Name = log[i].payload
              [] log[i].api \in {"metadata.create", "metadata.update"}
                 /\ log[i].target = "ApexTrigger" ->
                    \E t \in o.triggers : t.fullName = log[i].payload
              [] log[i].api = "metadata.create" /\ log[i].target = "ApexClass" ->
                    \E c \in o.classes : c.fullName = log[i].payload
              [] OTHER -> TRUE

\* C6 as stated: when a step of create fails after an earlier step has
\* changed the org, create returns its success summary with a warning line,
\* and the earlier changes stay.
X6_PartialFailureIsWarning ==
    [][(IsManage(request', "create") /\ PartialFailure(calls', org))
          => /\ TextOf(result').head = "created successfully"
             /\ HasWarning(result')
             /\ Kept(calls', org')]_vars

\* C6 amended: a failure of the trigger or class deployment, which come
\* after the record insert, is a warning line in the success summary; a
\* failure of schema provisioning or of the record insert, also after an
\* earlier change of the org, returns the error text and no summary; in
\* every case the changes made before the failure stay in the org.
C6_LateFailureIsWarning ==
    [][IsManage(request', "create") =>
          /\ Kept(calls', org')
          /\ (TriggerStepFailed(calls') \/ ClassStepFailed(calls', org))
                => /\ TextOf(result').head = "created successfully"
                   /\ HasWarning(result')
                   /\ \E r \in org'.records : r.Id = org.nextId
          /\ (SchemaStepFailed(calls') \/ RecordStepFailed(calls'))
                => /\ TextOf(result').head = "Error managing integration"
                   /\ org'.records = org.records]_vars

\* A create whose record was inserted and whose trigger could be neither
\* created nor updated.
W6_TriggerWarning ==
    /\ IsManage(request, "create")
    /\ TriggerStepFailed(calls)
    /\ HasWarning(result)
    /\ \E i \in CallsTo(calls, "sobject.create", ConfigObject) : calls[i].ok

----------------------------------------------------------------------------
(* C7: the trigger and the stored configurations.                          *)

\* The trigger deployed on the record's object invokes the handler with the
\* record's name, on the record's events.
InSync(o, r) ==
    \E c \in CreateConfigs, t \in o.triggers :
        /\ integrationRecord(c) = [k \in DOMAIN r \ {"Id"} |-> r[k]]
        /\ t.fullName = TriggerName(r.Object_Name__c)
        /\ t.body = generateTriggerCode(c)

\* C7 as stated: after creates and updates that each returned without a
\* warning, every stored configuration has, on its object, the trigger
\* <ObjectName>IntegrationTrigger invoking the handler with its name and
\* scoped to its events, also when two configurations monitor one object.
X7_TriggerInSyncWithRecords ==
    clean => \A r \in org.records : InSync(org, r)

----------------------------------------------------------------------------
(* C8: names.                                                              *)

\* C8 as stated: no two stored configuration records have the same name.
X8_NameUnique ==
    \A r1, r2 \in org.records : r1.Name = r2.Name => r1 = r2

----------------------------------------------------------------------------
(* C9: what the two tools return.                                          *)

\* C9 as stated: every invocation returns one text item, and a result that
\* reports a failure carries the error flag.
X9_FailureCarriesErrorFlag ==
    request # NoRequest =>
        /\ Len(result.content) = 1
        /\ result.content[1].type = "text"
        /\ Failed(result) => ErrorFlag(result)

----------------------------------------------------------------------------
(* C2 and C10: what update writes.                                         *)

\* The handler of update ran with a config object: the update was issued.
UpdateRan(req, log) ==
    /\ IsManage(req, "update")
    /\ Has(req.params.arguments, "config")
    /\ CallsTo(log, "sobject.update", ConfigObject) # {}

\* The payload of the update the log ends with.
PayloadOf(log) == log[Len(log)].payload

\* The record field each property of the partial config is written to.
FieldOf ==
    [ endpoint |-> "Endpoint__c", authConfig |-> "Auth_Config__c",
      messageTemplate |-> "Message_Template__c", condition |-> "Condition__c",
      active |-> "Active__c" ]

\* C2: an update whose config sets only active issues a field update that
\* carries the name and Active__c and no Endpoint__c, Message_Template__c or
\* Auth_Config__c, and leaves these three fields of every record as they
\* were, for either value of active.
C2_ActiveOnlyKeepsOtherFields ==
    [][(UpdateRan(request', calls')
        /\ DOMAIN request'.params.arguments.config = {"active"})
          => /\ DOMAIN PayloadOf(calls') = {"Name", "Active__c"}
             /\ PayloadOf(calls').Active__c = request'.params.arguments.config.active
             /\ \A r \in org'.records :
                   \E b \in org.records :
                      /\ b.Id = r.Id
                      /\ b.Endpoint__c = r.Endpoint__c
                      /\ b.Message_Template__c = r.Message_Template__c
                      /\ b.Auth_Config__c = r.Auth_Config__c]_vars

\* An update with only active, false, took effect on the stored record.
W2_ActiveOnlyUpdate ==
    /\ UpdateRan(request, calls)
    /\ request.params.arguments.config = [active |-> FALSE]
    /\ calls[Len(calls)].ok
    /\ \E r \in org.records :
          /\ r.Name = request.params.arguments.integrationName
          /\ ~r.Active__c
          /\ r.Endpoint__c = "https://e1"

\* C10 as stated: the field update that was applied carries exactly the properties present
\* in the partial config among endpoint, authConfig, messageTemplate,
\* condition and active, an empty string or false included, with the values
\* given, and nothing else besides the name.
X10_UpdateWritesPresentFields ==
    (UpdateRan(request, calls) /\ calls[Len(calls)].ok) =>
        LET config == request.params.arguments.config
            given == DOMAIN config \cap DOMAIN FieldOf
        IN  /\ DOMAIN PayloadOf(calls) = {"Name"} \cup {FieldOf[k] : k \in given}
            /\ PayloadOf(calls).Name = request.params.arguments.integrationName
            /\ \A k \in given :
                  PayloadOf(calls)[FieldOf[k]] =
                     IF k = "authConfig" THEN JSONstringify(config[k]) ELSE config[k]

----------------------------------------------------------------------------
(* C11: activate and deactivate.                                           *)

\* The handler of activate (active) or deactivate (~active) ran for name n.
ActivateRan(req, log, n, active) ==
    /\ IsManage(req, IF active THEN "activate" ELSE "deactivate")
    /\ req.params.arguments.integrationName = n
    /\ CallsTo(log, "sobject.update", ConfigObject) # {}

----------------------------------------------------------------------------
(* C12: the shared callout-service class.                                  *)

\* Step 4 of create ran: the creation of the class was issued.
ClassStepRan(req, log) ==
    IsManage(req, "create") /\ CallsTo(log, "metadata.create", "ApexClass") # {}

\* The last line of the summary, the line of the class step.
ClassLine(res) == Lines(res)[Len(Lines(res))]

\* C12 as stated: a create that finds the class IntegrationCalloutService
\* already deployed updates it, so that the deployed body is the body this
\* create generated.
X12_ClassUpdatedWhenPresent ==
    [][(ClassStepRan(request', calls') /\ org.classes # {}
        /\ ClassLine(result').mark = "ok")
          => /\ CallsTo(calls', "metadata.update", "ApexClass") # {}
             /\ \A c \in org'.classes : c.body = generateUtilityClass]_vars

\* C12 amended: create deploys the class when it is absent; when the class
\* is already deployed, its creation is rejected, create issues no update
\* of it and leaves the deployed classes as they are, and the summary says
\* that the class already exists (or warns, when the rejection is of
\* another kind).
C12_ClassCreatedOrLeft ==
    [][ClassStepRan(request', calls')
          => /\ CallsTo(calls', "metadata.update", "ApexClass") = {}
             /\ Cardinality(CallsTo(calls', "metadata.create", "ApexClass")) = 1
             /\ IF org.classes # {}
                THEN /\ org'.classes = org.classes
                     /\ ~calls'[Len(calls')].ok
                     /\ ClassLine(result').text \in
                           {"Utility class already exists",
                            "Could not create utility class"}
                     /\ ClassLine(result').text = "Utility class already exists"
                           <=> ClassLine(result').mark = "ok"
                ELSE IF calls'[Len(calls')].ok
                THEN /\ org'.classes = {[fullName |-> UtilityClassName,
                                         status |-> "Active",
                                         body |-> generateUtilityClass]}
                     /\ ClassLine(result').text = "Created utility class"
                ELSE /\ org'.classes = {}
                     /\ ClassLine(result').mark = "warning"]_vars

\* A create found the class deployed by an earlier create and said so.
W12_ClassAlreadyThere ==
    /\ ClassStepRan(request, calls)
    /\ ClassLine(result).text = "Utility class already exists"
    /\ Cardinality(org.records) > 1
    /\ org.classes # {}

----------------------------------------------------------------------------
(* C13: required arguments.                                                *)

\* The request is a create or an update without config, or a create whose
\* config lacks a required sub-field.
LacksRequired(req) ==
    \/ /\ IsManage(req, "create") \/ IsManage(req, "update")
       /\ ~Has(req.params.arguments, "config")
    \/ /\ IsManage(req, "create")
       /\ Has(req.params.arguments, "config")
       /\ ~(RequiredFields \subseteq DOMAIN req.params.arguments.config)

\* The calls of the log that change the org when they resolve.
Mutations(log) ==
    {i \in 1..Len(log) :
        log[i].api \in {"metadata.create", "metadata.update", "sobject.create",
                        "sobject.update", "sobject.delete"}}

\* C13 as stated: a create or update without config, and a create whose
\* config lacks a required sub-field, returns an error and performs no
\* remote mutation: no schema provisioning, no record insert or update, no
\* deployment.
X13_RequiredArgumentsChecked ==
    [][LacksRequired(request')
          => /\ Failed(result')
             /\ Mutations(calls') = {}
             /\ org' = org]_vars

----------------------------------------------------------------------------
(* C14 and C15: the presets of quick setup.                                *)

\* The request is a quick setup of the given preset that the handler
\* accepts.
IsQuick(req, type) ==
    /\ Has(req.params, "arguments")
    /\ req.params.name = QuickSetupTool
    /\ {"type", "objectName", "config"} \subseteq DOMAIN req.params.arguments
    /\ req.params.arguments.type = type

\* The events each preset fixes.
PresetEvents(type) ==
    IF type = "slack_opportunity" THEN <<"insert", "update">> ELSE <<"insert">>

\* The record the log's insert stored: the one the summary gives the id of.
Inserted(o, res) == {r \in o.records : r.Id = Lines(res)[Len(Lines(res)) - 2].detail}

PresetType(type) ==
    CASE type = "whatsapp_lead" -> "whatsapp"
      [] type = "slack_opportunity" -> "slack"
      [] type = "email_case" -> "email"
      [] type = "webhook_custom" -> "webhook"

PresetAuthType(type) ==
    CASE type = "whatsapp_lead" -> "bearer"
      [] type = "email_case" -> "api_key"
      [] OTHER -> "none"

PresetEndpoint(type, config) ==
    CASE type = "whatsapp_lead" ->
            "https://graph.facebook.com/v17.0/YOUR_PHONE_NUMBER_ID/messages"
      [] type = "slack_opportunity" ->
            IF Has(config, "slackWebhookUrl") THEN config.slackWebhookUrl ELSE ""
      [] type = "email_case" ->
            IF Has(config, "emailEndpoint") THEN config.emailEndpoint
            ELSE "https://api.sendgrid.com/v3/mail/send"
      [] type = "webhook_custom" ->
            IF Has(config, "webhookUrl") THEN config.webhookUrl ELSE ""

----------------------------------------------------------------------------
(* C16: while the active flag of a configuration is false, a record event  *)
(* on its object sends no HTTP POST for it: every POST the generated code  *)
(* sends is for a record whose Active__c is true, and when no active       *)
(* record bears the name the trigger passes, nothing is sent and the       *)
(* exception of the empty query is caught inside the handler.              *)

\* The most recent step is a record event.
IsDml(req) == req.params.name = "dml"

ActiveNamed(o, name) == {r \in o.records : r.Name = name /\ r.Active__c = TRUE}

C16_InactiveSendsNothing ==
    IsDml(request) =>
        /\ \A i \in 1..Len(calls) :
              /\ calls[i].api = "http.send"
              /\ \E r \in org.records :
                    r.Id = calls[i].payload.config /\ r.Active__c = TRUE
        /\ ActiveNamed(org, request.params.arguments.integrationName) = {} =>
              /\ calls = <<>>
              /\ result.caught =
                    "QueryException: List has no rows for assignment to SObject"

\* A, created active, has been deactivated, and an insert fires the trigger
\* deployed for it.
W16_DeactivatedThenFired ==
    /\ IsDml(request)
    /\ request.params.arguments.event = "insert"
    /\ request.params.arguments.integrationName = <<"A">>
    /\ \E r \in org.records : r.Name = <<"A">> /\ r.Active__c = FALSE
    /\ ActiveNamed(org, <<"A">>) = {}
    /\ calls = <<>>

----------------------------------------------------------------------------
(* C17: the stored condition is never evaluated: when the trigger of an    *)
(* active configuration fires on an event among the configuration's        *)
(* triggerEvents (insert, update or delete), one HTTP POST is sent for     *)
(* every record of the event, whatever the condition says.                 *)

\* The active records of the name the trigger passes that monitor the
\* object for the event.
Listening(o, args) ==
    {r \in ActiveNamed(o, args.integrationName) :
        /\ r.Object_Name__c = args.objectName
        /\ \E i \in 1..Len(r.Trigger_Events__c) : r.Trigger_Events__c[i] = args.event}

X17_EveryRecordOfAnEventPosts ==
    (IsDml(request) /\ Listening(org, request.params.arguments) # {}) =>
        /\ Len(calls) = Len(request.params.arguments.records)
        /\ \A i \in 1..Len(calls) :
              /\ calls[i].api = "http.send"
              /\ calls[i].payload.method = "POST"
              /\ calls[i].payload.payload.data = request.params.arguments.records[i]

----------------------------------------------------------------------------
(* C18: the message a POST carries is the template with every placeholder  *)
(* of a field populated with a value replaced by that value, every other   *)
(* placeholder left as it is, and the text of the values left unaltered.   *)

RECURSIVE SubstitutedOnce(_, _)
\* The template with each of its own placeholders replaced, in one pass.
SubstitutedOnce(template, record) ==
    IF template = <<>> THEN <<>>
    ELSE (IF \E f \in DOMAIN record.fields : Head(template) = Placeholder(f)
          THEN record.fields[CHOOSE f \in DOMAIN record.fields :
                                Head(template) = Placeholder(f)]
          ELSE <<Head(template)>>)
         \o SubstitutedOnce(Tail(template), record)

TemplateOf(o, id) ==
    TemplateTokens((CHOOSE r \in o.records : r.Id = id).Message_Template__c)

X18_SubstitutedValuesKept ==
    IsDml(request) =>
        \A i \in 1..Len(calls) :
            calls[i].payload.payload.message =
                SubstitutedOnce(TemplateOf(org, calls[i].payload.config),
                                request.params.arguments.records[i])

----------------------------------------------------------------------------
(* C19: delete(name) on a name a configuration record has removes one      *)
(* record of that name and nothing else: the deployed triggers, the        *)
(* deployed classes and the schema of Integration_Config__c are after the  *)
(* delete what they were before it, as are all other records.              *)

C19_DeleteRemovesOnlyTheRecord ==
    [][\A n \in Names :
          (DeleteRan(request', calls', n) /\ ~NoRecordNamed(org, n))
          => /\ org'.triggers = org.triggers
             /\ org'.classes = org.classes
             /\ org'.customObject = org.customObject
             /\ org'.customFields = org.customFields
             /\ org'.records \subseteq org.records
             /\ \A r \in org.records \ org'.records : r.Name = n
             /\ Cardinality(org.records \ org'.records) =
                   IF TextOf(result').head = "deleted successfully" THEN 1 ELSE 0]_vars

\* The record of a name has been deleted while the trigger generated for
\* that name and the class are still deployed.
W19_DeletedWithTriggerLeft ==
    \E n \in Names :
        /\ IsManage(request, "delete")
        /\ request.params.arguments.integrationName = n
        /\ TextOf(result).head = "deleted successfully"
        /\ NoRecordNamed(org, n)
        /\ \E t \in org.triggers : t.body.integrationName = n
        /\ \E c \in org.classes : c.fullName = UtilityClassName
        /\ org.customObject

----------------------------------------------------------------------------
(* C20: a request that reaches the connection step uses the                *)
(* client-credentials variant exactly when SALESFORCE_CONNECTION_TYPE is   *)
(* 'OAuth_2.0_Client_Credentials' and the password variant otherwise; when *)
(* a variable the selected variant requires is not set, the request fails  *)
(* with the error that names the variant's variables, the missing ones     *)
(* among them, and no remote call at all is made.                          *)

OAuthSelected(e) == e.SALESFORCE_CONNECTION_TYPE = "OAuth_2.0_Client_Credentials"

RequiredVariables(e) ==
    IF OAuthSelected(e)
    THEN {"SALESFORCE_CLIENT_ID", "SALESFORCE_CLIENT_SECRET", "SALESFORCE_INSTANCE_URL"}
    ELSE {"SALESFORCE_USERNAME", "SALESFORCE_PASSWORD", "SALESFORCE_TOKEN"}

MissingVariables(e) == {v \in RequiredVariables(e) : e[v] = ""}

\* The request reached createSalesforceConnection.
Connecting(req) == Has(req.params, "arguments")

C20_VariantByFlagAndMissingFirst ==
    Connecting(request) =>
        /\ \A i \in 1..Len(calls) :
              /\ calls[i].api = "fetch" => (OAuthSelected(env) /\ i = 1)
              /\ calls[i].api = "login" => (~OAuthSelected(env) /\ i = 1)
        /\ MissingVariables(env) = {} =>
              /\ calls # <<>>
              /\ calls[1].api = IF OAuthSelected(env) THEN "fetch" ELSE "login"
        /\ MissingVariables(env) # {} =>
              /\ calls = <<>>
              /\ ErrorFlag(result)
              /\ TextOf(result).head = "Error"
              /\ TextOf(result).message[1] =
                    IF OAuthSelected(env) THEN "Missing required OAuth credentials"
                    ELSE "Missing required Salesforce credentials"
              /\ \A v \in MissingVariables(env) :
                    \E i \in 2..Len(TextOf(result).message) : TextOf(result).message[i] = v

\* The flag selects client credentials and the client secret is not set,
\* while everything the password variant needs is: the request fails without
\* a call.
W20_OAuthSecretMissing ==
    /\ IsManage(request, "list")
    /\ OAuthSelected(env)
    /\ MissingVariables(env) = {"SALESFORCE_CLIENT_SECRET"}
    /\ env.SALESFORCE_USERNAME # "" /\ env.SALESFORCE_PASSWORD # ""
    /\ env.SALESFORCE_TOKEN # ""
    /\ calls = <<>>
    /\ ErrorFlag(result)

----------------------------------------------------------------------------
(* C22: in create, every deployment call for the trigger or the class      *)
(* comes after a resolved insert of the configuration record; when schema  *)
(* provisioning or the insert fails, create returns the 'Error managing    *)
(* integration' text and makes no deployment call.                         *)

DeployCalls(log) ==
    {i \in 1..Len(log) :
        /\ log[i].api \in {"metadata.create", "metadata.update"}
        /\ log[i].target \in {"ApexTrigger", "ApexClass"}}

C22_DeployOnlyAfterInsert ==
    IsManage(request, "create") =>
        /\ \A i \in DeployCalls(calls) :
              \E j \in 1..(i - 1) : calls[j].api = "sobject.create" /\ calls[j].ok
        /\ (SchemaStepFailed(calls) \/ RecordStepFailed(calls)) =>
              /\ TextOf(result).head = "Error managing integration"
              /\ DeployCalls(calls) = {}

\* The schema was provisioned by this create and its insert was rejected.
W22_InsertRejectedAfterSchema ==
    /\ IsManage(request, "create")
    /\ CallsTo(calls, "metadata.create", "CustomObject") # {}
    /\ ~SchemaStepFailed(calls)
    /\ RecordStepFailed(calls)
    /\ org.customObject
    /\ TextOf(result).head = "Error managing integration"
    /\ org.triggers = {} /\ org.classes = {}

----------------------------------------------------------------------------
(* C23: after a delete(name) that reports success no configuration record  *)
(* bears the name, whatever creates came before the delete.                *)

X23_DeletedNameIsGone ==
    \A n \in Names :
        (IsManage(request, "delete")
         /\ request.params.arguments.integrationName = n
         /\ TextOf(result).head = "deleted successfully")
        => NoRecordNamed(org, n)

----------------------------------------------------------------------------
(* C24: the trigger text create deploys is one call of the handler with    *)
(* the configuration's name, declared on objectName under the name         *)
(* <ObjectName>IntegrationTrigger, and its event list has exactly one      *)
(* 'after <event>' clause for each distinct element of triggerEvents and   *)
(* no other clause.                                                        *)

\* The last trigger deployment call of the log resolved.
TriggerDeployed(log) ==
    \E i \in 1..Len(log) :
        /\ log[i].target = "ApexTrigger" /\ log[i].ok
        /\ \A k \in (i + 1)..Len(log) : log[k].target # "ApexTrigger"

\* The positions of the event list that hold clauses, not separators.
ClausesAt(body) == {i \in 1..Len(body.events) : body.events[i] # ", "}

X24_OneClausePerDistinctEvent ==
    (IsManage(request, "create") /\ TriggerDeployed(calls)) =>
        \E t \in org.triggers :
            /\ t.fullName = TriggerName(request.params.arguments.config.objectName)
            /\ t.tableEnumOrId = request.params.arguments.config.objectName
            /\ t.body.on = request.params.arguments.config.objectName
            /\ t.body.integrationName = request.params.arguments.config.name
            /\ t.body.handler = "IntegrationCalloutService.handleIntegrationCallout"
            /\ \A i \in ClausesAt(t.body) :
                  \E k \in 1..Len(request.params.arguments.config.triggerEvents) :
                      t.body.events[i] =
                          EventClause(request.params.arguments.config.triggerEvents[k])
            /\ \A k \in 1..Len(request.params.arguments.config.triggerEvents) :
                  Cardinality({i \in ClausesAt(t.body) :
                      t.body.events[i] =
                          EventClause(request.params.arguments.config.triggerEvents[k])}) = 1

----------------------------------------------------------------------------
(* C21: the remote calls of two invocations of the handler never           *)
(* interleave: between two calls of one invocation the log holds no call   *)
(* of another.                                                             *)

X21_CallsNeverInterleave ==
    \A a, b, c \in 1..Len(calls) :
        (a < b /\ b < c /\ calls[a].by = calls[c].by) => calls[b].by = calls[a].by

====
